---------------------------- MODULE Spec2Model ----------------------------
(***************************************************************************)
(* A model of the retrieval core of the museum recommender:                *)
(*   - chunk_text / create_exhibition_chunks / ingest_data  (ingestion.py) *)
(*   - VectorStore.add_documents / search / clear           (vector_store) *)
(*   - VectorSearchStep.execute and its query builder  (pipeline_steps.py) *)
(*                                                                         *)
(* Texts are sequences of one-character strings.  The Cyrillic words of    *)
(* the source are written as short Latin words (the mapping is given where *)
(* each word is defined).  Similarity scores are exact rationals in units  *)
(* of 1/250, so that the 0.9 fallback penalty stays an integer.            *)
(***************************************************************************)
EXTENDS Integers, Sequences, FiniteSets, TLC

VARIABLES
    settings,     \* config.settings: [top_k, chunk_size, chunk_overlap], with embedding_dim,
                  \* the dimension of the model settings.embedding_model_name names
    documents,    \* VectorStore.documents: insertion-ordered dict, as a sequence of documents
    index,        \* VectorStore.index: NoIndex (None), or <<the vectors of the IndexFlatIP in insertion order>>
    disk_index,   \* the file faiss.index: NoFile, or <<the persisted vectors>>
    disk_docs,    \* the file documents.pkl: NoFile, or <<the persisted mapping>>
    out,          \* what the last call returned (or that it raised), with its arguments
    ctext,        \* chunk_text: the argument text
    csize,        \* chunk_text: the argument chunk_size
    coverlap,     \* chunk_text: the argument overlap
    cstart,       \* chunk_text: the local start
    cchunks,      \* chunk_text: the local chunks (the returned list once cpc = "done")
    cpc,          \* chunk_text: "idle" | "call" | "while" | "body" | "done"
    wpc,          \* add_documents on the writer thread: "idle" | "loop" | "create" | "add" | "save" | "save_docs"
    wbatch,       \* add_documents on the writer thread: the argument documents
    wput,         \* add_documents on the writer thread: the documents of the batch stored so far
    conversation_history,   \* DialogueManager.conversation_history
    clarification_rounds,   \* DialogueManager.clarification_rounds
    questions,              \* what the last generate_clarifying_questions returned
    nonempty_returns        \* calls since __init__ or reset() that returned questions

vars == <<settings, documents, index, disk_index, disk_docs, out,
          ctext, csize, coverlap, cstart, cchunks, cpc, wpc, wbatch, wput,
          conversation_history, clarification_rounds, questions, nonempty_returns>>

store_vars == <<settings, documents, index, disk_index, disk_docs, out>>
chunk_vars == <<ctext, csize, coverlap, cstart, cchunks, cpc>>
writer_vars == <<wpc, wbatch, wput>>
dialogue_vars == <<conversation_history, clarification_rounds, questions, nonempty_returns>>

None == "None"

\* self.index is None, or an IndexFlatIP holding these vectors
NoIndex == << >>
IndexOf(vectors) == <<vectors>>
Vectors(idx) == idx[1]

\* a file of the vector store directory: missing, or with this content
NoFile == << >>
File(content) == <<content>>
Content(file) == file[1]

(***************************************************************************)
(* Bounds of the model.                                                    *)
(***************************************************************************)
MaxTextLen == 4      \* longest text handed to chunk_text on its own
MaxChunkSize == 3    \* largest chunk_size tried
MaxOverlap == 3      \* largest overlap tried (reaches and passes chunk_size)
MaxTopK == 2         \* largest settings.top_k (TOP_K of the environment) tried
MaxVectors == 4      \* add_documents is not called once the index would pass this size
ModelChunkSize == 4      \* settings.chunk_size of the store model (CHUNK_SIZE)
ModelChunkOverlap == 2   \* settings.chunk_overlap of the store model (CHUNK_OVERLAP)
MaxBatch == 2        \* longest list handed to add_documents directly
MaxRounds == 2       \* largest settings.max_clarification_rounds
MaxNonEmptyReturns == 4   \* calls that return questions, counted up to here
MaxHistory == 2      \* entries of conversation_history, counted up to here

(***************************************************************************)
(* Python helpers.                                                         *)
(***************************************************************************)
Min2(a, b) == IF a <= b THEN a ELSE b
Max2(a, b) == IF a >= b THEN a ELSE b

SetMax(S) == CHOOSE m \in S : \A x \in S : x <= m

\* A slice bound as Python normalises it: a negative bound counts from the
\* end, and the result is clamped to 0..len.
PyIdx(i, n) == IF i < 0 THEN Max2(i + n, 0) ELSE Min2(i, n)

\* s[a:b]
PySlice(s, a, b) ==
    LET lo == PyIdx(a, Len(s))
        hi == PyIdx(b, Len(s))
    IN  IF lo >= hi THEN << >> ELSE SubSeq(s, lo + 1, hi)

\* s.rfind(ch, a, b): the highest 0-based position of ch in s[a:b], or -1.
PyRfind(s, ch, a, b) ==
    LET lo == PyIdx(a, Len(s))
        hi == PyIdx(b, Len(s))
        at == {i \in lo .. (hi - 1) : s[i + 1] = ch}
    IN  IF at = {} THEN -1 ELSE SetMax(at)

IsSpace(c) == c = " "

\* s.strip()
RECURSIVE LStrip(_)
LStrip(s) == IF s # << >> /\ IsSpace(Head(s)) THEN LStrip(Tail(s)) ELSE s

RECURSIVE RStrip(_)
RStrip(s) ==
    IF s # << >> /\ IsSpace(s[Len(s)]) THEN RStrip(SubSeq(s, 1, Len(s) - 1)) ELSE s

Strip(s) == RStrip(LStrip(s))

(***************************************************************************)
(* chunk_text: one pass of the while loop body, from the window start.     *)
(***************************************************************************)
\* The sentence boundary the loop looks for in text[start:end]: the last '.',
\* and only when there is none the last '!', and only then the last '?'.
SentenceEnd(text, start, end) ==
    LET dot == PyRfind(text, ".", start, end)
        bang == PyRfind(text, "!", start, end)
        ques == PyRfind(text, "?", start, end)
    IN  IF dot # -1 THEN dot ELSE IF bang # -1 THEN bang ELSE ques

\* WindowEnd taking the whole rest of the text when the window holds no
\* sentence boundary
WindowEnd_RestOfText(text, chunk_size, start) ==
    LET end == start + chunk_size
        sentence_end == SentenceEnd(text, start, end)
    IN  IF end < Len(text) /\ sentence_end # -1 /\ sentence_end > start
        THEN sentence_end + 1
        ELSE Max2(end, Len(text))

WindowEnd(text, chunk_size, start) ==
    LET end == start + chunk_size
        sentence_end == SentenceEnd(text, start, end)
    IN  IF end < Len(text) /\ sentence_end # -1 /\ sentence_end > start
        THEN sentence_end + 1
        ELSE end

WindowChunk(text, chunk_size, start) ==
    Strip(PySlice(text, start, WindowEnd(text, chunk_size, start)))

NextStart(text, chunk_size, overlap, start) ==
    WindowEnd(text, chunk_size, start) - overlap

\* The loop is cut off where it provably never exits.  Once start + chunk_size
\* is at or below -len(text) every later window is empty and start only falls
\* (this takes overlap >= chunk_size).  Above that floor there are fewer than
\* ChunkCap window starts, and the loop body is a function of start: a run of
\* ChunkCap passes (or appended chunks, one per pass at most) has been at one
\* start twice and repeats from there for ever.
ChunkCap(text, chunk_size, overlap) == 2 * Len(text) + chunk_size + overlap + 1

LoopCut(text, chunk_size, overlap, start, n) ==
    \/ start + chunk_size <= 0 - Len(text)
    \/ n >= ChunkCap(text, chunk_size, overlap)

(***************************************************************************)
(* chunk_text as a function: what a call returns, or that it never         *)
(* returns ("diverges": the loop reached a point it provably never leaves).*)
(***************************************************************************)
RECURSIVE ChunkRun(_, _, _, _, _, _)
ChunkRun(text, chunk_size, overlap, start, chunks, passes) ==
    IF LoopCut(text, chunk_size, overlap, start, passes)
    THEN [status |-> "diverges", chunks |-> chunks]
    ELSE LET chunk == WindowChunk(text, chunk_size, start)
             next == NextStart(text, chunk_size, overlap, start)
             appended == IF chunk # << >> THEN Append(chunks, chunk) ELSE chunks
         IN  IF next >= Len(text)
             THEN [status |-> "done", chunks |-> appended]
             ELSE ChunkRun(text, chunk_size, overlap, next, appended, passes + 1)

chunk_text(text, chunk_size, overlap) ==
    IF Len(text) <= chunk_size
    THEN [status |-> "done", chunks |-> <<text>>]
    ELSE ChunkRun(text, chunk_size, overlap, 0, << >>, 0)

(***************************************************************************)
(* Sequences as Python lists.                                              *)
(***************************************************************************)
Range(s) == {s[i] : i \in 1 .. Len(s)}

\* s[:n] for n >= 0
Take(s, n) == SubSeq(s, 1, Min2(n, Len(s)))

\* An argument of type Optional[List[str]]: NoList when it is None, and
\* List(lst) when a list is given.
NoList == << >>
List(lst) == <<lst>>
Items(opt) == opt[1]

\* "if lst:" for an Optional[List]
Truthy(opt) == opt # NoList /\ Items(opt) # << >>

(***************************************************************************)
(* MuseumDocument.  doc_id, titles, tags and audiences are strings;        *)
(* description and end_date are character sequences (they are sliced and   *)
(* compared character by character).                                       *)
(***************************************************************************)
MuseumDocument(doc_id, museum_name, exhibition_title, description, start_date, end_date, tags, location, accessibility, audience) ==
    [doc_id |-> doc_id, museum_name |-> museum_name,
     exhibition_title |-> exhibition_title, description |-> description,
     start_date |-> start_date, end_date |-> end_date, tags |-> tags,
     location |-> location, accessibility |-> accessibility,
     audience |-> audience]

(***************************************************************************)
(* EmbeddingModel: text -> unit vector.  The sentence transformer is an    *)
(* external model; here it is a fixed function of the text (of its length) *)
(* into four vectors of norm 5.  Inner products are scaled by 10, so a     *)
(* score of 250 is the similarity 1.0.                                     *)
(***************************************************************************)
Vecs == << <<5, 0>>, <<4, 3>>, <<3, 4>>, <<0, 5>> >>

\* The dimensions of the embedding models a process can be configured with.
\* A model of more than two dimensions fills the further ones with 0.
Dims == {2, 3}

EncodeLen(n) ==
    [i \in 1 .. settings.embedding_dim |-> IF i <= 2 THEN Vecs[(n % 4) + 1][i] ELSE 0]

\* encode(f"{doc.exhibition_title}. {doc.description}")
EncodeDocument(doc) ==
    EncodeLen(Len(doc.exhibition_title) + Len(". ") + Len(doc.description))

\* encode_query(query): encode(f"query: {query}")
encode_query(query) == EncodeLen(Len("query: " \o query))

\* the inner product (the further dimensions hold 0)
Score(q, v) == 10 * (q[1] * v[1] + q[2] * v[2])

\* index.d: the dimension of the vectors held; an index that holds none was
\* made by this process for its own model (line 125)
IndexDim(idx) ==
    IF Vectors(idx) = << >> THEN settings.embedding_dim ELSE Len(Vectors(idx)[1])

(***************************************************************************)
(* faiss.IndexFlatIP.search(q, k), k > 0: k hits by falling inner product, *)
(* equal scores in insertion order, padded with idx -1 when the index      *)
(* holds fewer than k vectors.  idx is 0-based.                            *)
(***************************************************************************)
RECURSIVE FaissTop(_, _, _, _)
FaissTop(vectors, q, k, taken) ==
    IF k = 0 THEN << >>
    ELSE LET rest == (1 .. Len(vectors)) \ taken
         IN  IF rest = {}
             THEN <<[score |-> 0, idx |-> -1]>> \o FaissTop(vectors, q, k - 1, taken)
             ELSE LET best == CHOOSE i \in rest : \A j \in rest :
                                  \/ Score(q, vectors[i]) > Score(q, vectors[j])
                                  \/ /\ Score(q, vectors[i]) = Score(q, vectors[j])
                                     /\ i <= j
                  IN  <<[score |-> Score(q, vectors[best]), idx |-> best - 1]>>
                          \o FaissTop(vectors, q, k - 1, taken \cup {best})

IndexSearch(vectors, q, k) == FaissTop(vectors, q, k, {})

(***************************************************************************)
(* VectorStore.search                                                      *)
(***************************************************************************)
Returned(results) == [raised |-> FALSE, results |-> results]
Raised == [raised |-> TRUE, results |-> << >>]

\* PassesFilters with the audience filter applied only when no tag filter is given
PassesFilters_TagsOnly(doc, filter_tags, filter_audience) ==
    IF Truthy(filter_tags)
    THEN \E i \in 1 .. Len(Items(filter_tags)) : Items(filter_tags)[i] \in Range(doc.tags)
    ELSE Truthy(filter_audience) =>
             \E i \in 1 .. Len(Items(filter_audience)) :
                 Items(filter_audience)[i] \in Range(doc.audience)

\* lines 176-183: a document passes unless a given filter shares nothing with it
PassesFilters(doc, filter_tags, filter_audience) ==
    /\ Truthy(filter_tags) =>
           \E i \in 1 .. Len(Items(filter_tags)) : Items(filter_tags)[i] \in Range(doc.tags)
    /\ Truthy(filter_audience) =>
           \E i \in 1 .. Len(Items(filter_audience)) :
               Items(filter_audience)[i] \in Range(doc.audience)

\* lines 167-190: the loop over the hits.  list(keys())[idx] raises IndexError
\* when idx is not a position of the document mapping.
RECURSIVE SearchLoop(_, _, _, _, _, _, _)
SearchLoop(docs, hits, i, results, top_k, filter_tags, filter_audience) ==
    IF i > Len(hits) THEN Returned(results)
    ELSE IF hits[i].idx = -1 THEN Returned(results)
    ELSE IF hits[i].idx >= Len(docs) THEN Raised
    ELSE LET doc == docs[hits[i].idx + 1]
             more == Append(results, [doc |-> doc, score |-> hits[i].score])
         IN  IF ~PassesFilters(doc, filter_tags, filter_audience)
             THEN SearchLoop(docs, hits, i + 1, results, top_k, filter_tags, filter_audience)
             ELSE IF Len(more) >= top_k THEN Returned(more)
             ELSE SearchLoop(docs, hits, i + 1, more, top_k, filter_tags, filter_audience)

\* The argument top_k: int = None is <<k>> when given and << >> when left out.
NoTopK == << >>
TopK(k) == <<k>>

\* line 156: top_k = top_k or settings.top_k
EffectiveTopK(top_k) ==
    IF top_k = NoTopK \/ top_k[1] = 0 THEN settings.top_k ELSE top_k[1]

\* StoreIsEmpty with the guard of line 153 left out
StoreIsEmpty_NoGuard == FALSE

\* line 153: the guard that returns [] before anything is looked up
StoreIsEmpty == index = NoIndex \/ Len(documents) = 0

\* index.search on None raises AttributeError, and IndexFlatIP.search refuses
\* k <= 0 and a query of another dimension than the index: either way the
\* call raises.
search(query, top_k, filter_tags, filter_audience) ==
    IF StoreIsEmpty THEN Returned(<< >>)
    ELSE LET k == EffectiveTopK(top_k)
             fetch == Min2(k * 2, Len(documents))
         IN  IF index = NoIndex \/ fetch <= 0 THEN Raised
             ELSE IF IndexDim(index) # settings.embedding_dim THEN Raised
             ELSE SearchLoop(documents,
                             IndexSearch(Vectors(index), encode_query(query), fetch),
                             1, << >>, k, filter_tags, filter_audience)

(***************************************************************************)
(* VectorSearchStep: the query builder and execute.                        *)
(* Words of the source and their spelling here:                            *)
(*   moods  sad: calm, pensive, quiet; happy: cheerful, bright, positive;  *)
(*          romantic: romantic, intimate, cosy; calm: calm, meditative,    *)
(*          harmonious                                                     *)
(*   audiences  adults, youth, elderly, family, children, teens            *)
(***************************************************************************)
MoodTerms(mood) ==
    CASE mood = "sad" -> <<"calm", "pensive", "quiet">>
      [] mood = "happy" -> <<"cheerful", "bright", "positive">>
      [] mood = "romantic" -> <<"romantic", "intimate", "cosy">>
      [] mood = "calm" -> <<"calm", "meditative", "harmonious">>
      [] OTHER -> << >>

RelTerms(relationship) ==
    CASE relationship = "partner" -> <<"romance", "for two", "intimate">>
      [] relationship = "grandparent" -> <<"homely", "accessible", "classic">>
      [] relationship = "parent" -> <<"homely", "for all ages">>
      [] relationship = "friend" -> <<"interesting", "discussed">>
      [] relationship = "child" -> <<"childrens", "hands-on", "educational">>
      [] relationship = "solo" -> <<"individual", "independent">>
      [] OTHER -> << >>

\* " ".join(parts)
RECURSIVE Join(_)
Join(parts) ==
    IF parts = << >> THEN ""
    ELSE IF Len(parts) = 1 THEN parts[1]
    ELSE parts[1] \o " " \o Join(Tail(parts))

\* _build_search_query with the mood terms put before the hobbies
_build_search_query_MoodFirst(entities) ==
    LET query_parts ==
            (IF entities.mood # None THEN MoodTerms(entities.mood) ELSE << >>)
            \o entities.hobbies
            \o entities.preferred_styles
            \o (IF entities.relationship # None
                THEN RelTerms(entities.relationship) ELSE << >>)
    IN  Join(IF query_parts = << >> THEN <<"exhibition", "museum", "art">>
             ELSE query_parts)

_build_search_query(entities) ==
    LET query_parts ==
            entities.hobbies
            \o (IF entities.mood # None THEN MoodTerms(entities.mood) ELSE << >>)
            \o entities.preferred_styles
            \o (IF entities.relationship # None
                THEN RelTerms(entities.relationship) ELSE << >>)
    IN  Join(IF query_parts = << >> THEN <<"exhibition", "museum", "art">>
             ELSE query_parts)

\* _get_audience_filter with nothing for a relationship the table lacks
_get_audience_filter_EmptyDefault(relationship) ==
    IF relationship = None \/ relationship = "" THEN << >>
    ELSE CASE relationship = "partner" -> <<"adults", "youth">>
           [] relationship = "grandparent" -> <<"elderly", "adults", "family">>
           [] relationship = "parent" -> <<"family", "adults">>
           [] relationship = "friend" -> <<"youth", "adults">>
           [] relationship = "child" -> <<"children", "family">>
           [] relationship = "solo" -> <<"adults", "youth", "teens">>
           [] OTHER -> << >>

\* lines 283-295.  "not relationship" holds of None and of the empty string.
_get_audience_filter(relationship) ==
    IF relationship = None \/ relationship = "" THEN << >>
    ELSE CASE relationship = "partner" -> <<"adults", "youth">>
           [] relationship = "grandparent" -> <<"elderly", "adults", "family">>
           [] relationship = "parent" -> <<"family", "adults">>
           [] relationship = "friend" -> <<"youth", "adults">>
           [] relationship = "child" -> <<"children", "family">>
           [] relationship = "solo" -> <<"adults", "youth", "teens">>
           [] OTHER -> <<"adults">>

\* Penalised with the factor left out
Penalised_Unchanged(score) == score

\* line 216: score * 0.9
Penalised(score) == (score * 9) \div 10

\* MergeFallback without the look-up in existing_ids
RECURSIVE MergeFallback_NoDedup(_, _, _, _, _)
MergeFallback_NoDedup(found, fallback_results, i, existing_ids, top_k) ==
    IF i > Len(fallback_results) THEN found
    ELSE LET hit == fallback_results[i]
             more == Append(found, [doc |-> hit.doc, score |-> (hit.score * 9) \div 10])
         IN  IF Len(more) >= top_k THEN more
             ELSE MergeFallback_NoDedup(more, fallback_results, i + 1,
                                        existing_ids, top_k)

\* MergeFallback that adds no fallback hit
MergeFallback_Nothing(found, fallback_results, i, existing_ids, top_k) == found

\* MergeFallback with each new fallback hit put in front of the list
RECURSIVE MergeFallback_InFront(_, _, _, _, _)
MergeFallback_InFront(found, fallback_results, i, existing_ids, top_k) ==
    IF i > Len(fallback_results) THEN found
    ELSE LET hit == fallback_results[i]
         IN  IF hit.doc.doc_id \in existing_ids
             THEN MergeFallback_InFront(found, fallback_results, i + 1,
                                        existing_ids, top_k)
             ELSE LET more == <<[doc |-> hit.doc, score |-> Penalised(hit.score)]>>
                                  \o found
                  IN  IF Len(more) >= top_k THEN more
                      ELSE MergeFallback_InFront(more, fallback_results, i + 1,
                                                 existing_ids, top_k)

\* lines 211-219: the merge of the fallback hits into documents and scores
RECURSIVE MergeFallback(_, _, _, _, _)
MergeFallback(found, fallback_results, i, existing_ids, top_k) ==
    IF i > Len(fallback_results) THEN found
    ELSE LET hit == fallback_results[i]
         IN  IF hit.doc.doc_id \in existing_ids
             THEN MergeFallback(found, fallback_results, i + 1, existing_ids, top_k)
             ELSE LET more == Append(found, [doc |-> hit.doc,
                                             score |-> Penalised(hit.score)])
                  IN  IF Len(more) >= top_k THEN more
                      ELSE MergeFallback(more, fallback_results, i + 1,
                                         existing_ids, top_k)

\* line 208: the number of hits the fallback search asks for
FallbackTopK == settings.top_k * 2

\* lines 188-189
FilterTags(entities) == entities.hobbies \o entities.preferred_styles
FilterAudience(entities) == _get_audience_filter(entities.relationship)

\* lines 192-197: the arguments of the filtered search
PrimaryCall(entities) ==
    [query |-> _build_search_query(entities),
     top_k |-> TopK(settings.top_k),
     filter_tags |-> IF FilterTags(entities) # << >>
                     THEN List(FilterTags(entities)) ELSE NoList,
     filter_audience |-> IF FilterAudience(entities) # << >>
                         THEN List(FilterAudience(entities)) ELSE NoList]

\* FallbackCall with the filters of the first search kept
FallbackCall_SameFilters(entities) ==
    [query |-> _build_search_query(entities),
     top_k |-> TopK(FallbackTopK),
     filter_tags |-> IF FilterTags(entities) # << >>
                     THEN List(FilterTags(entities)) ELSE NoList,
     filter_audience |-> IF FilterAudience(entities) # << >>
                         THEN List(FilterAudience(entities)) ELSE NoList]

\* lines 206-209: the arguments of the fallback search
FallbackCall(entities) ==
    [query |-> _build_search_query(entities),
     top_k |-> TopK(FallbackTopK),
     filter_tags |-> NoList,
     filter_audience |-> NoList]

SearchCall(call) == search(call.query, call.top_k, call.filter_tags, call.filter_audience)

\* lines 182-225.  results pairs search_results[i] with similarity_scores[i];
\* searches are the calls made to vector_store.search, in order.
execute(entities) ==
    LET results == SearchCall(PrimaryCall(entities))
        fallback_results == SearchCall(FallbackCall(entities))
        existing_ids == {results.results[i].doc.doc_id : i \in 1 .. Len(results.results)}
    IN  IF results.raised
        THEN [raised |-> TRUE, results |-> << >>, searches |-> <<PrimaryCall(entities)>>]
        ELSE IF Len(results.results) < settings.top_k
        THEN [raised |-> fallback_results.raised,
              results |-> IF fallback_results.raised THEN << >>
                          ELSE Take(MergeFallback(results.results,
                                                  fallback_results.results, 1,
                                                  existing_ids, settings.top_k),
                                    settings.top_k),
              searches |-> <<PrimaryCall(entities), FallbackCall(entities)>>]
        ELSE [raised |-> FALSE,
              results |-> Take(results.results, settings.top_k),
              searches |-> <<PrimaryCall(entities)>>]

(***************************************************************************)
(* VectorStore.add_documents, _save_index, _load_index, clear              *)
(***************************************************************************)
\* self.documents[doc.doc_id] = doc: a known key keeps its place in the dict
DictPut(docs, doc) ==
    IF \E i \in 1 .. Len(docs) : docs[i].doc_id = doc.doc_id
    THEN LET i == CHOOSE j \in 1 .. Len(docs) : docs[j].doc_id = doc.doc_id
         IN  [docs EXCEPT ![i] = doc]
    ELSE Append(docs, doc)

RECURSIVE DictPutAll(_, _)
DictPutAll(docs, batch) ==
    IF batch = << >> THEN docs ELSE DictPutAll(DictPut(docs, Head(batch)), Tail(batch))

\* encode(texts): one vector for each document of the batch, in its order
EncodeBatch(batch) == [i \in 1 .. Len(batch) |-> EncodeDocument(batch[i])]

\* lines 124-128: the index after index.add(embeddings)
IndexAdd(idx, batch) ==
    IndexOf((IF idx = NoIndex THEN << >> ELSE Vectors(idx)) \o EncodeBatch(batch))

\* index.ntotal
IndexSize == IF index = NoIndex THEN 0 ELSE Len(Vectors(index))

\* add_documents with the index file written before index.add
add_documents_SaveBeforeAdd(batch, encode_raises) ==
    IF batch = << >>
    THEN [store |-> <<documents, index, disk_index, disk_docs>>, raised |-> FALSE]
    ELSE LET docs == DictPutAll(documents, batch)
             idx == IndexAdd(index, batch)
         IN  IF encode_raises
                    \/ (index # NoIndex /\ IndexDim(index) # settings.embedding_dim)
             THEN [store |-> <<docs, index, disk_index, disk_docs>>, raised |-> TRUE]
             ELSE [store |-> <<docs, idx,
                               IF index = NoIndex THEN disk_index
                               ELSE File(Vectors(index)),
                               File(docs)>>,
                   raised |-> FALSE]

\* lines 103-133, with _save_index (lines 96-101).  The store after
\* add_documents(batch), as <<documents, index, disk_index, disk_docs>>, and
\* whether the call raised.  encode_raises: the embedding provider fails on
\* this call (line 121).  index.add (line 128) raises when the index on hand
\* was built with a model of another dimension; both come after the loop
\* that fills the mapping (lines 114-118).
add_documents(batch, encode_raises) ==
    IF batch = << >>
    THEN [store |-> <<documents, index, disk_index, disk_docs>>, raised |-> FALSE]
    ELSE LET docs == DictPutAll(documents, batch)
             idx == IndexAdd(index, batch)
         IN  IF encode_raises
                    \/ (index # NoIndex /\ IndexDim(index) # settings.embedding_dim)
             THEN [store |-> <<docs, index, disk_index, disk_docs>>, raised |-> TRUE]
             ELSE [store |-> <<docs, idx, File(Vectors(idx)), File(docs)>>,
                   raised |-> FALSE]

\* lines 83-94: what a new VectorStore starts with, as <<documents, index>>.
\* read_fails: faiss.read_index or pickle.load raises; the handler of lines
\* 91-94 prints and goes on with nothing.
_load_index(read_fails) ==
    IF disk_index # NoFile /\ disk_docs # NoFile /\ ~read_fails
    THEN <<Content(disk_docs), IndexOf(Content(disk_index))>>
    ELSE <<<< >>, NoIndex>>

(***************************************************************************)
(* Dates.  A date string is the character sequence of YYYY-MM-DD; Python   *)
(* compares strings character by character, by code point.                 *)
(***************************************************************************)
Digit(n) ==
    CASE n = 0 -> "0" [] n = 1 -> "1" [] n = 2 -> "2" [] n = 3 -> "3" [] n = 4 -> "4"
      [] n = 5 -> "5" [] n = 6 -> "6" [] n = 7 -> "7" [] n = 8 -> "8" [] n = 9 -> "9"

\* ord(c) for the characters of a date string
Ord(c) ==
    CASE c = "-" -> 45
      [] c = "0" -> 48 [] c = "1" -> 49 [] c = "2" -> 50 [] c = "3" -> 51
      [] c = "4" -> 52 [] c = "5" -> 53 [] c = "6" -> 54 [] c = "7" -> 55
      [] c = "8" -> 56 [] c = "9" -> 57

\* a >= b on strings
RECURSIVE StrGE(_, _)
StrGE(a, b) ==
    IF b = << >> THEN TRUE
    ELSE IF a = << >> THEN FALSE
    ELSE IF Ord(Head(a)) # Ord(Head(b)) THEN Ord(Head(a)) > Ord(Head(b))
    ELSE StrGE(Tail(a), Tail(b))

\* datetime.strftime('%Y-%m-%d') of the day <<year, month, day>>
Strftime(day) ==
    << Digit(day[1] \div 1000), Digit((day[1] \div 100) % 10),
       Digit((day[1] \div 10) % 10), Digit(day[1] % 10), "-",
       Digit(day[2] \div 10), Digit(day[2] % 10), "-",
       Digit(day[3] \div 10), Digit(day[3] % 10) >>

(***************************************************************************)
(* The data files an ingestion can be pointed at, as their loaders return  *)
(* them (load_museum_data_from_csv / _from_json: one document per record). *)
(***************************************************************************)
DocPhoto ==
    MuseumDocument("d1", "Museum 1", "Photo show", <<"a", "a", ".">>,
                   Strftime(<<2026, 1, 1>>), Strftime(<<2026, 12, 1>>),
                   <<"photo", "modern", "interactive">>, "Street 1", <<"lift">>,
                   <<"adults", "youth">>)

\* the record of d1 as a later edition of the source has it
DocPhotoRevised ==
    MuseumDocument("d1", "Museum 1", "Family photo day", <<"a", " ", "a", "!">>,
                   Strftime(<<2026, 1, 1>>), Strftime(<<2027, 1, 15>>),
                   <<"family", "interactive">>, "Street 1", <<"lift">>,
                   <<"family", "children">>)

\* ends on the first of the days an ingestion runs on
DocHistory ==
    MuseumDocument("d2", "Museum 2", "History", <<"a", "a">>,
                   Strftime(<<2026, 1, 1>>), Strftime(<<2026, 11, 3>>),
                   <<"history", "classic">>, "Street 2", <<"ramp">>,
                   <<"adults", "elderly">>)

\* a description longer than the chunk size
DocLong ==
    MuseumDocument("d3", "Museum 3", "Space", <<"a", "a", " ", "a", "a", "a">>,
                   Strftime(<<2026, 1, 1>>), Strftime(<<2026, 12, 1>>),
                   <<"science", "photo">>, "Street 3", <<"lift">>,
                   <<"family", "teens">>)

\* over long ago
DocExpired ==
    MuseumDocument("d4", "Museum 4", "Old", <<"a">>,
                   Strftime(<<2025, 1, 1>>), Strftime(<<2025, 12, 31>>),
                   <<"history">>, "Street 4", << >>, <<"adults">>)

\* a long description with one early full stop
DocOneSentence ==
    MuseumDocument("d5", "Museum 5", "Prose", <<"a", ".", "a", "a", "a", "a", "a">>,
                   Strftime(<<2026, 1, 1>>), Strftime(<<2027, 1, 15>>),
                   <<"literature">>, "Street 5", << >>, <<"adults">>)

Paths == {"a.json", "b.csv", "h.json", "c.xml", "gone.json", "gone.xml"}

PathExists(path) == path \notin {"gone.json", "gone.xml"}

\* Path(data_path).suffix.lower()
Suffix(path) ==
    CASE path \in {"a.json", "h.json", "gone.json"} -> ".json"
      [] path = "b.csv" -> ".csv"
      [] path \in {"c.xml", "gone.xml"} -> ".xml"

FileRecords(path) ==
    CASE path = "a.json" -> <<DocExpired, DocLong>>
      [] path = "b.csv" -> <<DocPhotoRevised, DocHistory, DocExpired>>
      [] path = "h.json" -> <<DocOneSentence>>
      [] OTHER -> << >>

\* the days datetime.now() is read on
Days == {<<2026, 11, 3>>, <<2026, 11, 4>>}

(***************************************************************************)
(* create_exhibition_chunks and ingest_data                                *)
(***************************************************************************)
ChunkId(doc_id, i) == doc_id \o "_chunk_" \o ToString(i)

\* create_exhibition_chunks with the chunks numbered from 1
create_exhibition_chunks_FromOne(doc, chunks) ==
    [i \in 1 .. Len(chunks) |->
        MuseumDocument(ChunkId(doc.doc_id, i), doc.museum_name,
                       doc.exhibition_title, chunks[i], doc.start_date,
                       doc.end_date, doc.tags, doc.location, doc.accessibility,
                       doc.audience)]

\* lines 142-158, from the chunks chunk_text returned
create_exhibition_chunks(doc, chunks) ==
    [i \in 1 .. Len(chunks) |->
        MuseumDocument(ChunkId(doc.doc_id, i - 1), doc.museum_name,
                       doc.exhibition_title, chunks[i], doc.start_date,
                       doc.end_date, doc.tags, doc.location, doc.accessibility,
                       doc.audience)]

\* IsActive with > where the source has >=
IsActive_Strict(doc, current_date) ==
    StrGE(doc.end_date, current_date) /\ doc.end_date # current_date

\* line 203
IsActive(doc, current_date) == StrGE(doc.end_date, current_date)

\* lines 199-204
ActiveDocuments(docs, current_date) ==
    SelectSeq(docs, LAMBDA doc : IsActive(doc, current_date))

NeedsChunking(doc) == Len(doc.description) > settings.chunk_size

ChunksOf(doc) == chunk_text(doc.description, settings.chunk_size, settings.chunk_overlap)

\* lines 209-215
RECURSIVE AllChunks(_)
AllChunks(docs) ==
    IF docs = << >> THEN << >>
    ELSE (IF NeedsChunking(Head(docs))
          THEN create_exhibition_chunks(Head(docs), ChunksOf(Head(docs)).chunks)
          ELSE <<Head(docs)>>)
         \o AllChunks(Tail(docs))

\* chunk_text never returns for one of the documents that are chunked
ChunkingHangs(docs) ==
    \E i \in 1 .. Len(docs) :
        NeedsChunking(docs[i]) /\ ChunksOf(docs[i]).status = "diverges"

\* IngestError with the format looked at before the path
IngestError_FormatFirst(data_path, file_format) ==
    LET format == IF file_format # "auto" THEN file_format
                  ELSE IF Suffix(data_path) = ".csv" THEN "csv"
                  ELSE IF Suffix(data_path) = ".json" THEN "json"
                  ELSE "unsupported"
    IN  IF format \notin {"csv", "json"} THEN "ValueError"
        ELSE IF ~PathExists(data_path) THEN "FileNotFoundError"
        ELSE "ok"

\* lines 176-196: "ok", or the exception the call ends with before loading
IngestError(data_path, file_format) ==
    IF ~PathExists(data_path) THEN "FileNotFoundError"
    ELSE LET format == IF file_format # "auto" THEN file_format
                       ELSE IF Suffix(data_path) = ".csv" THEN "csv"
                       ELSE IF Suffix(data_path) = ".json" THEN "json"
                       ELSE "unsupported"
         IN  IF format \in {"csv", "json"} THEN "ok" ELSE "ValueError"

(***************************************************************************)
(* chunk_text as a process: the call, each pass of the loop, the return.   *)
(***************************************************************************)
Alphabet == {"a", " ", ".", "!", "?"}

RECURSIVE TextsOfLen(_)
TextsOfLen(n) ==
    IF n = 0 THEN {<< >>}
    ELSE {Append(t, c) : t \in TextsOfLen(n - 1), c \in Alphabet}

Texts == UNION {TextsOfLen(n) : n \in 0 .. MaxTextLen}

ChunkEnter ==
    /\ cpc = "call"
    /\ IF Len(ctext) <= csize
       THEN /\ cchunks' = <<ctext>>
            /\ cpc' = "done"
       ELSE /\ cchunks' = << >>
            /\ cpc' = "while"
    /\ cstart' = 0
    /\ UNCHANGED <<ctext, csize, coverlap>>
    /\ UNCHANGED <<store_vars, writer_vars, dialogue_vars>>

\* line 100: while start < len(text)
ChunkWhile ==
    /\ cpc = "while"
    /\ cpc' = IF cstart < Len(ctext) THEN "body" ELSE "done"
    /\ UNCHANGED <<ctext, csize, coverlap, cstart, cchunks>>
    /\ UNCHANGED <<store_vars, writer_vars, dialogue_vars>>

\* Where LoopCut holds the loop goes on for ever and nothing is returned: from
\* there the list is no longer extended, and start is kept at the floor below
\* which every window is empty, so that the endless run is a cycle of states.
StartFloor(text, chunk_size) == 0 - Len(text) - chunk_size

\* lines 101-122: one pass of the loop body
ChunkBody ==
    /\ cpc = "body"
    /\ LET chunk == WindowChunk(ctext, csize, cstart)
           next == NextStart(ctext, csize, coverlap, cstart)
           cut == LoopCut(ctext, csize, coverlap, cstart, Len(cchunks))
       IN  /\ cchunks' = IF chunk # << >> /\ ~cut THEN Append(cchunks, chunk) ELSE cchunks
           /\ cstart' = Max2(next, StartFloor(ctext, csize))
           /\ cpc' = IF next >= Len(ctext) THEN "done" ELSE "while"
    /\ UNCHANGED <<ctext, csize, coverlap>>
    /\ UNCHANGED <<store_vars, writer_vars, dialogue_vars>>

StoreIdle ==
    /\ settings = [top_k |-> 1, chunk_size |-> 1, chunk_overlap |-> 0,
                   embedding_dim |-> 2]
    /\ documents = << >>
    /\ index = NoIndex
    /\ disk_index = NoFile
    /\ disk_docs = NoFile
    /\ out = [kind |-> "none"]

WriterIdle ==
    /\ wpc = "idle"
    /\ wbatch = << >>
    /\ wput = 0

\* lines 21-23, and no call made yet
NoCall == << <<"no call">> >>

DialogueIdle ==
    /\ conversation_history = << >>
    /\ clarification_rounds = 0
    /\ questions = NoCall
    /\ nonempty_returns = 0

ChunkIdle ==
    /\ ctext = << >>
    /\ csize = 1
    /\ coverlap = 0
    /\ cstart = 0
    /\ cchunks = << >>
    /\ cpc = "idle"

InitChunk ==
    /\ ctext \in Texts
    /\ csize \in 1 .. MaxChunkSize
    /\ coverlap \in 0 .. MaxOverlap
    /\ cstart = 0
    /\ cchunks = << >>
    /\ cpc = "call"
    /\ StoreIdle
    /\ WriterIdle
    /\ DialogueIdle

NextChunk == ChunkEnter \/ ChunkWhile \/ ChunkBody

SpecChunk == InitChunk /\ [][NextChunk]_vars

\* The loop runs on one thread with nothing to wait for: a pass that can be
\* taken is taken.
SpecChunkFair == SpecChunk /\ WF_vars(NextChunk)

(***************************************************************************)
(* The store as a process: a fresh installation (no persisted files), then *)
(* any sequence of calls.  Request processing is single-threaded and       *)
(* synchronous: a call is made when the caller holds no unread result      *)
(* (out.kind = "none"), out is what the call returned, and Resume is the   *)
(* caller going on after reading it.                                       *)
(***************************************************************************)
\* the documents the tests and callers hand to add_documents directly
DirectDocs == {DocPhoto, DocPhotoRevised, DocHistory}

RECURSIVE BatchesOfLen(_)
BatchesOfLen(n) ==
    IF n = 0 THEN {<< >>}
    ELSE {Append(b, d) : b \in BatchesOfLen(n - 1), d \in DirectDocs}

Batches == UNION {BatchesOfLen(n) : n \in 0 .. MaxBatch}

\* "nonexistent_term": the query of test_empty_search_results
Queries == {"photo", "history art", "nonexistent_term"}
TopKArgs == {NoTopK} \cup {TopK(k) : k \in -1 .. MaxTopK}
TagFilters == {NoList, List(<< >>), List(<<"photo">>), List(<<"history", "family">>)}
AudienceFilters == {NoList, List(<<"adults">>), List(<<"family", "teens">>)}

EntityRecords ==
    [hobbies : {<< >>, <<"photo">>, <<"history", "photo">>},
     preferred_styles : {<< >>, <<"interactive">>},
     mood : {None, "romantic"},
     relationship : {None, "partner", "child", "family"}]

\* ingest_data is inside a chunk_text call that never returns
Hung == out.kind = "ingest_data" /\ out.status = "hang"

\* an exception of add_documents or ingest_data is not caught by any caller
\* short of the one that ends the process (app.py, sys.exit(1))
Exited ==
    \/ out.kind = "add_documents" /\ out.raised
    \/ out.kind = "ingest_data" /\ out.status = "raised"

Ready == out.kind = "none"

Init ==
    /\ settings \in [top_k : 1 .. MaxTopK, chunk_size : {ModelChunkSize},
                     chunk_overlap : {ModelChunkOverlap}, embedding_dim : Dims]
    /\ documents = << >>
    /\ index = NoIndex
    /\ disk_index = NoFile
    /\ disk_docs = NoFile
    /\ out = [kind |-> "none"]
    /\ ChunkIdle
    /\ WriterIdle
    /\ DialogueIdle

AddDocuments ==
    /\ Ready
    /\ \E batch \in Batches, encode_raises \in BOOLEAN :
        /\ IndexSize + Len(batch) <= MaxVectors
        /\ LET after == add_documents(batch, encode_raises)
           IN  /\ documents' = after.store[1]
               /\ index' = after.store[2]
               /\ disk_index' = after.store[3]
               /\ disk_docs' = after.store[4]
               /\ out' = [kind |-> "add_documents", batch |-> batch,
                          raised |-> after.raised]
    /\ UNCHANGED settings
    /\ UNCHANGED <<chunk_vars, writer_vars, dialogue_vars>>

Search ==
    /\ Ready
    /\ \E query \in Queries, top_k \in TopKArgs,
          filter_tags \in TagFilters, filter_audience \in AudienceFilters :
        LET r == search(query, top_k, filter_tags, filter_audience)
        IN  out' = [kind |-> "search", query |-> query, top_k |-> top_k,
                    filter_tags |-> filter_tags, filter_audience |-> filter_audience,
                    raised |-> r.raised, results |-> r.results]
    /\ UNCHANGED <<settings, documents, index, disk_index, disk_docs>>
    /\ UNCHANGED <<chunk_vars, writer_vars, dialogue_vars>>

Execute ==
    /\ Ready
    /\ \E entities \in EntityRecords :
        LET r == execute(entities)
        IN  out' = [kind |-> "execute", entities |-> entities,
                    raised |-> r.raised, results |-> r.results,
                    searches |-> r.searches]
    /\ UNCHANGED <<settings, documents, index, disk_index, disk_docs>>
    /\ UNCHANGED <<chunk_vars, writer_vars, dialogue_vars>>

\* lines 196-206
Clear ==
    /\ Ready
    /\ index' = NoIndex
    /\ documents' = << >>
    /\ disk_index' = NoFile
    /\ disk_docs' = NoFile
    /\ out' = [kind |-> "clear"]
    /\ UNCHANGED settings
    /\ UNCHANGED <<chunk_vars, writer_vars, dialogue_vars>>

\* A new process: VectorStore.__init__ with _load_index (lines 73-94), under
\* the embedding model the environment of the new process names.  The
\* constructor returns also when the files could not be read.
Restart ==
    /\ \E embedding_dim \in Dims, read_fails \in BOOLEAN :
        /\ read_fails => (disk_index # NoFile /\ disk_docs # NoFile)
        /\ settings' = [settings EXCEPT !.embedding_dim = embedding_dim]
        /\ documents' = _load_index(read_fails)[1]
        /\ index' = _load_index(read_fails)[2]
        /\ out' = [kind |-> "restart", read_failed |-> read_fails, raised |-> FALSE]
    /\ UNCHANGED <<disk_index, disk_docs>>
    /\ UNCHANGED <<chunk_vars, writer_vars, dialogue_vars>>

IngestCalls ==
    {<<"a.json", "auto">>, <<"b.csv", "auto">>, <<"h.json", "auto">>,
     <<"c.xml", "auto">>, <<"gone.json", "auto">>, <<"gone.xml", "auto">>,
     <<"b.csv", "csv">>, <<"a.json", "yaml">>, <<"gone.json", "yaml">>}

\* ingest_data(data_path, vector_store, file_format) on the day today
IngestData ==
    /\ Ready
    /\ \E call \in IngestCalls, today \in Days, encode_raises \in BOOLEAN :
        LET data_path == call[1]
            file_format == call[2]
            error == IngestError(data_path, file_format)
            current_date == Strftime(today)
            active_documents == ActiveDocuments(FileRecords(data_path), current_date)
            all_chunks == AllChunks(active_documents)
            arguments == [kind |-> "ingest_data", data_path |-> data_path,
                          file_format |-> file_format, today |-> today,
                          count_before |-> Len(documents)]
        IN  IF error # "ok"
            THEN /\ out' = arguments @@ [status |-> "raised", error |-> error]
                 /\ UNCHANGED <<documents, index, disk_index, disk_docs>>
            ELSE IF ChunkingHangs(active_documents)
            THEN /\ out' = arguments @@ [status |-> "hang"]
                 /\ UNCHANGED <<documents, index, disk_index, disk_docs>>
            ELSE /\ IndexSize + Len(all_chunks) <= MaxVectors
                 /\ LET after == add_documents(all_chunks, encode_raises)
                    IN  /\ documents' = after.store[1]
                        /\ index' = after.store[2]
                        /\ disk_index' = after.store[3]
                        /\ disk_docs' = after.store[4]
                        /\ out' = IF after.raised
                                  THEN arguments @@ [status |-> "raised",
                                                     error |-> "add_documents"]
                                  ELSE arguments @@ [status |-> "returned",
                                                     all_chunks |-> all_chunks,
                                                     returned |-> Len(all_chunks)]
    /\ UNCHANGED settings
    /\ UNCHANGED <<chunk_vars, writer_vars, dialogue_vars>>

\* the caller has read the result of its call and goes on
Resume ==
    /\ ~Ready
    /\ ~Hung
    /\ ~Exited
    /\ out' = [kind |-> "none"]
    /\ UNCHANGED <<settings, documents, index, disk_index, disk_docs>>
    /\ UNCHANGED <<chunk_vars, writer_vars, dialogue_vars>>

Next ==
    AddDocuments \/ Search \/ Execute \/ Clear \/ Restart \/ IngestData \/ Resume

Spec == Init /\ [][Next]_vars

(***************************************************************************)
(* add_documents in progress: one writer thread inside add_documents, step *)
(* by step, and a reader thread that calls search between any two steps.   *)
(* A search is one step: it reads the index and the mapping under the      *)
(* interpreter lock.                                                       *)
(***************************************************************************)
InitInProgress ==
    /\ settings \in [top_k : 1 .. MaxTopK, chunk_size : {ModelChunkSize},
                     chunk_overlap : {ModelChunkOverlap}, embedding_dim : {2}]
    /\ documents = << >>
    /\ index = NoIndex
    /\ disk_index = NoFile
    /\ disk_docs = NoFile
    /\ out = [kind |-> "none"]
    /\ ChunkIdle
    /\ WriterIdle
    /\ DialogueIdle

\* lines 109-110: the call; an empty list returns at once
WriterCall ==
    /\ wpc = "idle"
    /\ \E batch \in Batches :
        /\ IndexSize + Len(batch) <= MaxBatch
        /\ wbatch' = (IF batch = << >> THEN << >> ELSE batch)
        /\ wpc' = (IF batch = << >> THEN "idle" ELSE "loop")
    /\ wput' = 0
    /\ UNCHANGED <<store_vars, chunk_vars, dialogue_vars>>

\* lines 114-118: one pass of the loop
WriterPut ==
    /\ wpc = "loop"
    /\ wput < Len(wbatch)
    /\ documents' = DictPut(documents, wbatch[wput + 1])
    /\ wput' = wput + 1
    /\ UNCHANGED <<settings, index, disk_index, disk_docs, out, wpc, wbatch>>
    /\ UNCHANGED <<chunk_vars, dialogue_vars>>

\* line 121: encode returns the embeddings, or raises and ends the call
WriterEncode ==
    /\ wpc = "loop"
    /\ wput = Len(wbatch)
    /\ \E encode_raises \in BOOLEAN :
        /\ wpc' = (IF encode_raises THEN "idle" ELSE "create")
        /\ wbatch' = (IF encode_raises THEN << >> ELSE wbatch)
        /\ wput' = (IF encode_raises THEN 0 ELSE wput)
    /\ UNCHANGED <<store_vars, chunk_vars, dialogue_vars>>

\* lines 124-125
WriterCreate ==
    /\ wpc = "create"
    /\ index' = (IF index = NoIndex THEN IndexOf(<< >>) ELSE index)
    /\ wpc' = "add"
    /\ UNCHANGED <<settings, documents, disk_index, disk_docs, out, wbatch, wput>>
    /\ UNCHANGED <<chunk_vars, dialogue_vars>>

\* line 128
WriterAdd ==
    /\ wpc = "add"
    /\ index' = IndexAdd(index, wbatch)
    /\ wpc' = "save"
    /\ UNCHANGED <<settings, documents, disk_index, disk_docs, out, wbatch, wput>>
    /\ UNCHANGED <<chunk_vars, dialogue_vars>>

\* _save_index, lines 96-99: the index file is written
WriterSaveIndex ==
    /\ wpc = "save"
    /\ disk_index' = (IF index # NoIndex THEN File(Vectors(index)) ELSE disk_index)
    /\ wpc' = "save_docs"
    /\ UNCHANGED <<settings, documents, index, disk_docs, out, wbatch, wput>>
    /\ UNCHANGED <<chunk_vars, dialogue_vars>>

\* _save_index, lines 100-101: the mapping file is written; the call returns
WriterSaveDocs ==
    /\ wpc = "save_docs"
    /\ disk_docs' = (IF index # NoIndex THEN File(documents) ELSE disk_docs)
    /\ wpc' = "idle"
    /\ wbatch' = << >>
    /\ wput' = 0
    /\ UNCHANGED <<settings, documents, index, disk_index, out>>
    /\ UNCHANGED <<chunk_vars, dialogue_vars>>

\* The process stops inside add_documents (it is killed, or the machine goes
\* down) and a new process constructs its VectorStore from the files as they
\* are: __init__ with _load_index, which returns whatever it finds.
StopAndConstruct ==
    /\ wpc # "idle"
    /\ documents' = _load_index(FALSE)[1]
    /\ index' = _load_index(FALSE)[2]
    /\ out' = [kind |-> "restart", read_failed |-> FALSE, raised |-> FALSE,
               stopped_at |-> wpc]
    /\ wpc' = "idle"
    /\ wbatch' = << >>
    /\ wput' = 0
    /\ UNCHANGED <<settings, disk_index, disk_docs>>
    /\ UNCHANGED <<chunk_vars, dialogue_vars>>

\* the reader thread: a search, with the position of the writer it ran at
ReaderSearch ==
    /\ Ready
    /\ \E query \in Queries, top_k \in TopKArgs :
        LET r == search(query, top_k, NoList, NoList)
        IN  out' = [kind |-> "search", query |-> query, top_k |-> top_k,
                    filter_tags |-> NoList, filter_audience |-> NoList,
                    raised |-> r.raised, results |-> r.results,
                    during |-> wpc, put |-> wput]
    /\ UNCHANGED <<settings, documents, index, disk_index, disk_docs>>
    /\ UNCHANGED <<chunk_vars, writer_vars, dialogue_vars>>

\* the reader has read its result
ReaderResume ==
    /\ ~Ready
    /\ out' = [kind |-> "none"]
    /\ UNCHANGED <<settings, documents, index, disk_index, disk_docs>>
    /\ UNCHANGED <<chunk_vars, writer_vars, dialogue_vars>>

NextInProgress ==
    \/ WriterCall \/ WriterPut \/ WriterEncode \/ WriterCreate \/ WriterAdd
    \/ WriterSaveIndex \/ WriterSaveDocs \/ StopAndConstruct
    \/ ReaderSearch \/ ReaderResume

SpecInProgress == InitInProgress /\ [][NextInProgress]_vars

(***************************************************************************)
(* DialogueManager.  A user request is what the keyword tests of lines     *)
(* 114-121 find in it; the language model either raises or returns a text. *)
(* Words of the source and their spelling here: the missing pieces of      *)
(* information are age, company, interests; a question is a character      *)
(* sequence.                                                               *)
(***************************************************************************)
Requests == [has_age : BOOLEAN, has_company : BOOLEAN, has_interests : BOOLEAN]

\* self.clarification_chain.run(...): an exception, or the text returned
LlmOutcomes ==
    {[raises |-> TRUE, text |-> << >>]}
    \cup {[raises |-> FALSE, text |-> t] :
            t \in {<< >>, <<" ">>, <<"q">>, <<"q", "?">>, <<" ", "q", "?", " ">>}}

\* lines 112-121
MissingInfo(user_request) ==
    (IF user_request.has_age THEN << >> ELSE <<"age">>)
    \o (IF user_request.has_company THEN << >> ELSE <<"company">>)
    \o (IF user_request.has_interests THEN << >> ELSE <<"interests">>)

\* lines 132-134
CleanQuestion(text) ==
    LET question == Strip(text)
    IN  IF question # << >> /\ question[Len(question)] # "?"
        THEN Append(question, "?") ELSE question

AgeQuestion == <<"a", "g", "e", "?">>
CompanyQuestion == <<"w", "h", "o", "?">>
InterestsQuestion == <<"t", "o", "p", "i", "c", "?">>

\* lines 152-163
_get_fallback_questions(missing_info) ==
    Take((IF "age" \in Range(missing_info) THEN <<AgeQuestion>> ELSE << >>)
         \o (IF "company" \in Range(missing_info) THEN <<CompanyQuestion>> ELSE << >>)
         \o (IF "interests" \in Range(missing_info) THEN <<InterestsQuestion>> ELSE << >>),
         2)

\* lines 108-141: the list returned and clarification_rounds after the call
generate_clarifying_questions(user_request, llm) ==
    IF clarification_rounds >= settings.max_clarification_rounds
    THEN [returned |-> << >>, rounds |-> clarification_rounds]
    ELSE IF llm.raises
    THEN [returned |-> _get_fallback_questions(MissingInfo(user_request)),
          rounds |-> clarification_rounds]
    ELSE [returned |-> IF CleanQuestion(llm.text) # << >>
                       THEN <<CleanQuestion(llm.text)>> ELSE << >>,
          rounds |-> clarification_rounds + 1]

InitDialogue ==
    /\ settings \in [top_k : {1}, chunk_size : {1}, chunk_overlap : {0},
                     embedding_dim : {2},
                     max_clarification_rounds : 0 .. MaxRounds]
    /\ documents = << >>
    /\ index = NoIndex
    /\ disk_index = NoFile
    /\ disk_docs = NoFile
    /\ out = [kind |-> "none"]
    /\ ChunkIdle
    /\ WriterIdle
    /\ DialogueIdle

GenerateClarifyingQuestions ==
    /\ nonempty_returns < MaxNonEmptyReturns
    /\ \E user_request \in Requests, llm \in LlmOutcomes :
        LET r == generate_clarifying_questions(user_request, llm)
        IN  /\ questions' = r.returned
            /\ clarification_rounds' = r.rounds
            /\ nonempty_returns' = IF r.returned # << >>
                                   THEN nonempty_returns + 1 ELSE nonempty_returns
    /\ UNCHANGED conversation_history
    /\ UNCHANGED <<store_vars, chunk_vars, writer_vars>>

\* lines 172-173
AddToHistory ==
    /\ Len(conversation_history) + 2 <= MaxHistory
    /\ conversation_history' = conversation_history \o <<"user", "assistant">>
    /\ UNCHANGED <<clarification_rounds, questions, nonempty_returns>>
    /\ UNCHANGED <<store_vars, chunk_vars, writer_vars>>

\* lines 192-193
Reset ==
    /\ conversation_history' = << >>
    /\ clarification_rounds' = 0
    /\ questions' = NoCall
    /\ nonempty_returns' = 0
    /\ UNCHANGED <<store_vars, chunk_vars, writer_vars>>

NextDialogue == GenerateClarifyingQuestions \/ AddToHistory \/ Reset

SpecDialogue == InitDialogue /\ [][NextDialogue]_vars

(***************************************************************************)
(* Properties                                                              *)
(***************************************************************************)
DocIds(results) == {results[i].doc.doc_id : i \in 1 .. Len(results)}

\* The hits the index returns for a search call on the store as it is.
HitsOf(call) ==
    IndexSearch(Vectors(index), encode_query(call.query),
                Min2(EffectiveTopK(call.top_k) * 2, Len(documents)))

\* A document shares a value with a filter, or the filter is empty or absent.
SharesOrNoFilter(values, filter) ==
    ~Truthy(filter) \/ Range(values) \cap Range(Items(filter)) # {}

(* C1: after any sequence of add_documents calls the index holds exactly   *)
(* one vector per stored document, and the vector at position i is the     *)
(* embedding of the document under the i-th key of the mapping.            *)
C1_IndexMatchesDocuments ==
    /\ IndexSize = Len(documents)
    /\ \A i \in 1 .. Len(documents) :
           i <= IndexSize => Vectors(index)[i] = EncodeDocument(documents[i])

(* C2: every pair a search returns shares a tag with a non-empty           *)
(* filter_tags and an audience with a non-empty filter_audience, and       *)
(* nothing else is left out: the result is the hits in index order that    *)
(* satisfy the given filters, up to top_k of them.                         *)
C2_FiltersRespected ==
    (out.kind = "search" /\ ~out.raised /\ ~StoreIsEmpty) =>
        LET hits == HitsOf(out)
            Kept(i) ==
                /\ hits[i].idx # -1
                /\ hits[i].idx < Len(documents)
                /\ SharesOrNoFilter(documents[hits[i].idx + 1].tags, out.filter_tags)
                /\ SharesOrNoFilter(documents[hits[i].idx + 1].audience,
                                    out.filter_audience)
            kept == SelectSeq([i \in 1 .. Len(hits) |-> i], Kept)
            expected == [j \in 1 .. Min2(Len(kept), EffectiveTopK(out.top_k)) |->
                            [doc |-> documents[hits[kept[j]].idx + 1],
                             score |-> hits[kept[j]].score]]
        IN  /\ \A i \in 1 .. Len(out.results) :
                /\ Truthy(out.filter_tags) =>
                       Range(out.results[i].doc.tags)
                           \cap Range(Items(out.filter_tags)) # {}
                /\ Truthy(out.filter_audience) =>
                       Range(out.results[i].doc.audience)
                           \cap Range(Items(out.filter_audience)) # {}
            /\ out.results = expected

\* a search with both filters given that returned a hit and left a stored
\* document out for its audience alone
C2_Witness ==
    /\ out.kind = "search" /\ ~out.raised
    /\ Truthy(out.filter_tags) /\ Truthy(out.filter_audience)
    /\ out.results # << >>
    /\ \E i \in 1 .. Len(documents) :
        /\ Range(documents[i].tags) \cap Range(Items(out.filter_tags)) # {}
        /\ Range(documents[i].audience) \cap Range(Items(out.filter_audience)) = {}

(* C3: a search or recommend call asked for k >= 0 results returns at most *)
(* k, and asked for k <= 0 results (k = 0 passed as top_k included) it     *)
(* returns the empty list.                                                 *)
C3_TopKBound ==
    /\ (out.kind = "search" /\ ~out.raised /\ out.top_k # NoTopK) =>
           /\ out.top_k[1] >= 0 => Len(out.results) <= out.top_k[1]
           /\ out.top_k[1] <= 0 => out.results = << >>
    /\ (out.kind = "execute" /\ ~out.raised) => Len(out.results) <= settings.top_k

(* C4: no document id appears twice in the search_results of one execute   *)
(* call, the merged fallback hits included.                                *)
C4_NoDuplicateIds ==
    (out.kind = "execute" /\ ~out.raised) =>
        \A i, j \in 1 .. Len(out.results) :
            i # j => out.results[i].doc.doc_id # out.results[j].doc.doc_id

\* an execute whose fallback search returned a document the filtered search
\* had found, and added another one
C4_Witness ==
    /\ out.kind = "execute" /\ ~out.raised
    /\ Len(out.searches) = 2
    /\ LET found == SearchCall(out.searches[1]).results
           fallback == SearchCall(out.searches[2]).results
       IN  /\ DocIds(found) \cap DocIds(fallback) # {}
           /\ Len(out.results) > Len(found)

(* C5: on a store that holds no documents search and execute return the    *)
(* empty list without raising, whatever the preferences and top_k.         *)
C5_EmptyStoreEmptyResult ==
    (out.kind \in {"search", "execute"} /\ Len(documents) = 0) =>
        ~out.raised /\ out.results = << >>

\* an execute with preferences and filters on a store without documents
C5_Witness ==
    /\ out.kind = "execute"
    /\ Len(documents) = 0
    /\ Len(out.searches) = 2
    /\ out.entities.hobbies # << >>
    /\ out.entities.relationship # None

\* The list the fallback step is said to produce when the second search asks
\* for n results: the filtered hits, then the hits of the unfiltered search
\* whose id is new, each at 0.9 of its score, cut at top_k; the filtered hits
\* alone when there are top_k of them.
MergedAsStated(entities, n) ==
    LET found == SearchCall(PrimaryCall(entities)).results
        fallback == search(_build_search_query(entities), TopK(n), NoList, NoList).results
        new == SelectSeq(fallback, LAMBDA hit : hit.doc.doc_id \notin DocIds(found))
        penalised == [i \in 1 .. Len(new) |->
                         [doc |-> new[i].doc, score |-> (new[i].score * 9) \div 10]]
    IN  IF Len(found) < settings.top_k
        THEN Take(found \o penalised, settings.top_k)
        ELSE found

\* The searches the fallback step is said to make when the second one asks
\* for n results.
SearchesAsStated(entities, n) ==
    IF Len(SearchCall(PrimaryCall(entities)).results) < settings.top_k
    THEN <<PrimaryCall(entities),
           [query |-> _build_search_query(entities), top_k |-> TopK(n),
            filter_tags |-> NoList, filter_audience |-> NoList]>>
    ELSE <<PrimaryCall(entities)>>

(* C6 as stated: when the filtered search returns fewer than top_k         *)
(* documents a second search without filters is made for top_k results     *)
(* with the same query, and its hits with a new id are appended at 0.9 of  *)
(* their score until there are top_k; otherwise nothing is added or        *)
(* changed.                                                                *)
C6_FallbackForTopK ==
    (out.kind = "execute" /\ ~out.raised) =>
        /\ out.searches = SearchesAsStated(out.entities, settings.top_k)
        /\ out.results = MergedAsStated(out.entities, settings.top_k)

(* C6 as amended: the same, with the second search made for 2 * top_k      *)
(* results.                                                                *)
C6_FallbackForTwiceTopK ==
    (out.kind = "execute" /\ ~out.raised) =>
        /\ out.searches = SearchesAsStated(out.entities, 2 * settings.top_k)
        /\ out.results = MergedAsStated(out.entities, 2 * settings.top_k)

\* an execute that appended a penalised fallback hit after a filtered hit
\* and passed over a fallback hit it already had
C6_Witness ==
    /\ out.kind = "execute" /\ ~out.raised
    /\ Len(out.searches) = 2
    /\ LET found == SearchCall(out.searches[1]).results
           fallback == SearchCall(out.searches[2]).results
       IN  /\ found # << >>
           /\ Len(out.results) > Len(found)
           /\ fallback[1].doc.doc_id \in DocIds(found)
           /\ out.results[Len(out.results)].score > 0

\* The calendar day a date string names, and the order of days.
DigitValue(c) == Ord(c) - 48

ParseDay(s) ==
    << 1000 * DigitValue(s[1]) + 100 * DigitValue(s[2])
           + 10 * DigitValue(s[3]) + DigitValue(s[4]),
       10 * DigitValue(s[6]) + DigitValue(s[7]),
       10 * DigitValue(s[9]) + DigitValue(s[10]) >>

DayBefore(a, b) ==
    \/ a[1] < b[1]
    \/ a[1] = b[1] /\ a[2] < b[2]
    \/ a[1] = b[1] /\ a[2] = b[2] /\ a[3] < b[3]

\* The documents of a batch that come from a record: the record itself or
\* its chunks.
DerivedFrom(record, batch) ==
    {d \in Range(batch) :
        \/ d.doc_id = record.doc_id
        \/ \E n \in 0 .. Len(record.description) : d.doc_id = ChunkId(record.doc_id, n)}

(* C7: ingest_data leaves out every record whose end_date is before the    *)
(* day of the ingestion, and indexes every record whose end_date is that   *)
(* day or later, as itself or as its chunks.                               *)
C7_ExpiryFilter ==
    (out.kind = "ingest_data" /\ out.status = "returned") =>
        \A i \in 1 .. Len(FileRecords(out.data_path)) :
            LET record == FileRecords(out.data_path)[i]
                derived == DerivedFrom(record, out.all_chunks)
            IN  IF DayBefore(ParseDay(record.end_date), out.today)
                THEN derived = {}
                ELSE /\ derived \subseteq Range(documents)
                     /\ IF Len(record.description) > settings.chunk_size
                        THEN derived = Range(create_exhibition_chunks(
                                                 record, ChunksOf(record).chunks))
                        ELSE derived = {record}

\* an ingestion that kept a record ending on the very day and dropped another
C7_Witness ==
    /\ out.kind = "ingest_data" /\ out.status = "returned"
    /\ \E i \in 1 .. Len(FileRecords(out.data_path)) :
        /\ ParseDay(FileRecords(out.data_path)[i].end_date) = out.today
        /\ FileRecords(out.data_path)[i] \in Range(documents)
    /\ \E i \in 1 .. Len(FileRecords(out.data_path)) :
        /\ DayBefore(ParseDay(FileRecords(out.data_path)[i].end_date), out.today)
        /\ DerivedFrom(FileRecords(out.data_path)[i], out.all_chunks) = {}

(* C8: the value ingest_data returns is the number of documents the call   *)
(* added: the document count after the call is the count before it plus    *)
(* the returned value.                                                     *)
C8_ReturnedCountIsAdded ==
    (out.kind = "ingest_data" /\ out.status = "returned") =>
        Len(documents) = out.count_before + out.returned

(* C9: chunk_text terminates for every text, every chunk_size > 0 and      *)
(* every overlap >= 0: the loop exits and the call returns.                *)
C9_ChunkTextTerminates == <>(cpc = "done")

\* The chunks put together again: the first one whole, the others without
\* their first overlap characters.
RECURSIVE Reassembled(_, _, _)
Reassembled(chunks, overlap, i) ==
    IF i > Len(chunks) THEN << >>
    ELSE (IF i = 1 THEN chunks[i] ELSE PySlice(chunks[i], overlap, Len(chunks[i])))
         \o Reassembled(chunks, overlap, i + 1)

(* C10: for a text that chunk_text splits, the chunks in order, each but   *)
(* the first without its first overlap characters, concatenate to the      *)
(* text.                                                                   *)
C10_RoundTrip ==
    (cpc = "done" /\ Len(ctext) > csize) => Reassembled(cchunks, coverlap, 1) = ctext

(* C11: every chunk chunk_text returns is at most chunk_size characters    *)
(* long, whatever the text, also when it holds no sentence terminator.     *)
C11_ChunkLengthBound ==
    cpc = "done" => \A i \in 1 .. Len(cchunks) : Len(cchunks[i]) <= csize

\* a returned split into several chunks of a text without any terminator,
\* one of them as long as chunk_size
C11_Witness ==
    /\ cpc = "done"
    /\ Len(ctext) > csize
    /\ Len(cchunks) >= 2
    /\ \A i \in 1 .. Len(ctext) : ctext[i] \notin {".", "!", "?"}
    /\ \E i \in 1 .. Len(cchunks) : Len(cchunks[i]) = csize

\* A format ingest_data does not support: a file_format other than csv and
\* json, or with 'auto' an extension other than .csv and .json.
UnsupportedFormat(data_path, file_format) ==
    IF file_format = "auto"
    THEN Suffix(data_path) \notin {".csv", ".json"}
    ELSE file_format \notin {"csv", "json"}

(* C12: an ingest_data call on a path that does not exist ends with the    *)
(* not-found error, whatever the format; a call on an existing path with   *)
(* an unsupported extension or format ends with the format error; either   *)
(* way documents, index and the persisted files are what they were.        *)
C12_IngestErrorsLeaveStore ==
    [][(out.kind = "none" /\ out'.kind = "ingest_data"
            /\ (~PathExists(out'.data_path)
                   \/ UnsupportedFormat(out'.data_path, out'.file_format)))
        => /\ out'.status = "raised"
           /\ out'.error = IF ~PathExists(out'.data_path)
                           THEN "FileNotFoundError" ELSE "ValueError"
           /\ UNCHANGED <<documents, index, disk_index, disk_docs>>]_vars

\* a filled store after a call on a missing path of unsupported extension
\* that ended with the not-found error
C12_Witness ==
    /\ out.kind = "ingest_data" /\ out.status = "raised"
    /\ ~PathExists(out.data_path)
    /\ UnsupportedFormat(out.data_path, out.file_format)
    /\ out.error = "FileNotFoundError"
    /\ documents # << >>
    /\ disk_docs = File(documents)

\* the last call was an add_documents, on its own or inside ingest_data, that
\* completed and had documents to add
CompletedAdd ==
    \/ out.kind = "add_documents" /\ ~out.raised /\ out.batch # << >>
    \/ out.kind = "ingest_data" /\ out.status = "returned" /\ out.all_chunks # << >>

(* C13: a VectorStore constructed after a completed add_documents, on the  *)
(* same directory and with the same embedding model, whose reading of the  *)
(* files succeeds, holds the documents in the same order and the same      *)
(* index as the instance that wrote them.  search reads nothing but the    *)
(* settings, the documents and the index, so every query then returns the  *)
(* same sequence of results from both.                                     *)
C13_ReloadIsSameStore ==
    [][(CompletedAdd /\ out'.kind = "restart" /\ ~out'.read_failed
            /\ settings' = settings)
        => /\ documents' = documents
           /\ index' = index]_vars

\* a store freshly loaded with two documents and as many vectors that its
\* embedding model can search
C13_Witness ==
    /\ out.kind = "restart" /\ ~out.read_failed
    /\ Len(documents) >= 2
    /\ IndexSize = Len(documents)
    /\ disk_docs = File(documents)
    /\ IndexDim(index) = settings.embedding_dim
    /\ \E query \in Queries : Len(search(query, NoTopK, NoList, NoList).results) >= 2

(* C14: an add_documents call that raises (the embedding provider fails,  *)
(* or the vectors have another dimension than the index) adds nothing: the *)
(* document mapping, the index and the persisted files after the call are  *)
(* those before it.                                                        *)
C14_FailedAddAddsNothing ==
    [][(out.kind = "none" /\ out'.kind = "add_documents" /\ out'.raised)
        => UNCHANGED <<documents, index, disk_index, disk_docs>>]_vars

(* C15: when the persisted index or mapping cannot be read while a         *)
(* VectorStore is constructed, the constructor raises; the store does not  *)
(* go on as an empty one.                                                  *)
C15_ReadFailureSurfaces ==
    (out.kind = "restart" /\ out.read_failed) =>
        /\ out.raised
        /\ ~(index = NoIndex /\ documents = << >>)

\* The lookup table of audiences by companionship type.
AudienceTable ==
    [partner |-> <<"adults", "youth">>,
     grandparent |-> <<"elderly", "adults", "family">>,
     parent |-> <<"family", "adults">>,
     friend |-> <<"youth", "adults">>,
     child |-> <<"children", "family">>,
     solo |-> <<"adults", "youth", "teens">>]

\* The audience filter execute handed to its filtered search: a list, empty
\* when it passed None.
AudienceFilterUsed ==
    IF out.searches[1].filter_audience = NoList THEN << >>
    ELSE Items(out.searches[1].filter_audience)

(* C16 as stated: the audience filter execute builds is the table entry of *)
(* the record's companionship type, and is empty when the type is absent   *)
(* or not in the table.                                                    *)
C16_AudienceFilterEmptyIfUnmapped ==
    out.kind = "execute" =>
        AudienceFilterUsed =
            IF out.entities.relationship \in DOMAIN AudienceTable
            THEN AudienceTable[out.entities.relationship]
            ELSE << >>

(* C16 as amended: the audience filter is the table entry of the record's  *)
(* companionship type, empty when the type is absent, and the one-element  *)
(* default ["adults"] when the type is not in the table.                   *)
C16_AudienceFilterDefaultsToAdults ==
    out.kind = "execute" =>
        AudienceFilterUsed =
            IF out.entities.relationship \in DOMAIN AudienceTable
            THEN AudienceTable[out.entities.relationship]
            ELSE IF out.entities.relationship = None THEN << >>
            ELSE <<"adults">>

\* an execute for a companionship type the table lacks, on a store where the
\* filter decides what is found
C16_Witness ==
    /\ out.kind = "execute" /\ ~out.raised
    /\ out.entities.relationship = "family"
    /\ out.searches[1].filter_audience = List(<<"adults">>)
    /\ \E i \in 1 .. Len(documents) : "adults" \notin Range(documents[i].audience)
    /\ out.results # << >>

\* The terms a stored document is described by (its description is running
\* text over the letters of Alphabet).
TermsOf(doc) ==
    Range(doc.tags) \cup Range(doc.audience) \cup Range(doc.accessibility)
        \cup {doc.doc_id, doc.museum_name, doc.exhibition_title, doc.location}

\* The terms of a query.
QueryTerms(query) ==
    IF query = "history art" THEN {"history", "art"} ELSE {query}

(* C17: a search without filters, on a store that holds documents, for a   *)
(* query term that occurs in none of them returns an empty list.           *)
C17_UnknownTermFindsNothing ==
    (/\ out.kind = "search"
     /\ documents # << >> /\ index # NoIndex
     /\ out.filter_tags = NoList /\ out.filter_audience = NoList
     /\ \A i \in 1 .. Len(documents) :
            QueryTerms(out.query) \cap TermsOf(documents[i]) = {})
        => (~out.raised /\ out.results = << >>)

(* C18: a search that runs while the one writer is inside add_documents,   *)
(* after the mapping was updated and before the vectors are appended or    *)
(* the state is persisted, does not raise, and every pair it returns has   *)
(* the score of the returned document's own vector.                        *)
C18_SearchDuringAdd ==
    (/\ out.kind = "search"
     /\ out.during \in {"loop", "create", "add", "save", "save_docs"}
     /\ out.put > 0
     /\ (out.top_k = NoTopK \/ out.top_k[1] >= 1))
        => /\ ~out.raised
           /\ \A i \in 1 .. Len(out.results) :
                  out.results[i].score =
                      Score(encode_query(out.query), EncodeDocument(out.results[i].doc))

\* sub is seq with some elements left out, the others in the same order
RECURSIVE IsSubsequence(_, _)
IsSubsequence(sub, seq) ==
    IF sub = << >> THEN TRUE
    ELSE IF seq = << >> THEN FALSE
    ELSE IF Head(sub) = Head(seq) THEN IsSubsequence(Tail(sub), Tail(seq))
    ELSE IsSubsequence(sub, Tail(seq))

DocsOf(results) == [i \in 1 .. Len(results) |-> results[i].doc]

(* C19: in the list execute returns, the hits of the filtered search come  *)
(* first, as the search returned them and in non-increasing score order,   *)
(* and every fallback hit comes after them, in the order the fallback      *)
(* search returned it.                                                     *)
C19_PrimaryFirstThenFallback ==
    (out.kind = "execute" /\ ~out.raised) =>
        LET found == SearchCall(out.searches[1]).results
            n == Len(found)
            fallback == IF Len(out.searches) = 2
                        THEN SearchCall(out.searches[2]).results ELSE << >>
        IN  /\ Len(out.results) >= n
            /\ SubSeq(out.results, 1, n) = found
            /\ \A i \in 1 .. n - 1 : out.results[i].score >= out.results[i + 1].score
            /\ IsSubsequence(DocsOf(SubSeq(out.results, n + 1, Len(out.results))),
                             DocsOf(fallback))

\* an execute whose list holds a filtered hit and, after it, a fallback hit
\* of a higher score
C19_Witness ==
    /\ out.kind = "execute" /\ ~out.raised
    /\ Len(out.searches) = 2
    /\ LET found == SearchCall(out.searches[1]).results
       IN  /\ found # << >>
           /\ Len(out.results) > Len(found)
           /\ out.results[Len(found) + 1].score > out.results[Len(found)].score

\* The 0-based positions of the sentence terminators inside the window
\* text[start:end], past the window start.
TerminatorsPastStart(text, start, end) ==
    {i \in (start + 1) .. (Min2(end, Len(text)) - 1) : text[i + 1] \in {".", "!", "?"}}

\* Where a window from start is said to end: just after the last terminator
\* past the start, at start + chunk_size when there is none.
StatedWindowEnd(text, chunk_size, start) ==
    LET at == TerminatorsPastStart(text, start, start + chunk_size)
    IN  IF at # {} THEN SetMax(at) + 1 ELSE start + chunk_size

(* C20: a pass of the chunk_text loop whose window starts inside the text  *)
(* and does not reach its end closes the window just after the last of the *)
(* terminators '.', '!', '?' that lie in the window past its start, or at  *)
(* start + chunk_size when there is none, and the next window starts at    *)
(* that end minus overlap.                                                 *)
C20_WindowEndsAtLastTerminator ==
    [][(cpc = "body" /\ cstart >= 0 /\ cstart + csize < Len(ctext))
        => cstart' = StatedWindowEnd(ctext, csize, cstart) - coverlap]_vars

\* The documents of the batch an ingestion built that come from a record, in
\* the order of the batch.
DerivedSeq(record, batch) ==
    SelectSeq(batch, LAMBDA d : d \in DerivedFrom(record, batch))

(* C21: of the records an ingestion keeps, one whose description is longer *)
(* than chunk_size is handed to the store only as chunk documents with the *)
(* ids <doc_id>_chunk_0, <doc_id>_chunk_1, ... in this order, each a chunk *)
(* of the description with every other field equal to the record's, and   *)
(* one whose description is at most chunk_size long is handed over as      *)
(* exactly one document, the record itself; all of them are stored.        *)
C21_ChunkDocuments ==
    (out.kind = "ingest_data" /\ out.status = "returned") =>
        \A r \in 1 .. Len(FileRecords(out.data_path)) :
            LET record == FileRecords(out.data_path)[r]
                mine == DerivedSeq(record, out.all_chunks)
            IN  ~DayBefore(ParseDay(record.end_date), out.today) =>
                  /\ Range(mine) \subseteq Range(documents)
                  /\ IF Len(record.description) > settings.chunk_size
                     THEN /\ Len(mine) = Len(ChunksOf(record).chunks)
                          /\ \A i \in 1 .. Len(mine) :
                               /\ mine[i].doc_id = ChunkId(record.doc_id, i - 1)
                               /\ mine[i].description = ChunksOf(record).chunks[i]
                               /\ [mine[i] EXCEPT !.doc_id = record.doc_id,
                                                  !.description = record.description]
                                      = record
                     ELSE mine = <<record>>

\* an ingestion that stored a long record as two or more chunk documents
C21_Witness ==
    /\ out.kind = "ingest_data" /\ out.status = "returned"
    /\ \E r \in 1 .. Len(FileRecords(out.data_path)) :
        LET record == FileRecords(out.data_path)[r]
        IN  /\ Len(record.description) > settings.chunk_size
            /\ Len(DerivedSeq(record, out.all_chunks)) >= 2
            /\ record \notin Range(documents)

(* C22: a VectorStore constructed while exactly one of the two files, the  *)
(* index file and the mapping file, exists reports an error.               *)
C22_OneFileAloneIsAnError ==
    (out.kind = "restart" /\ (disk_index = NoFile) # (disk_docs = NoFile))
        => out.raised

\* The terms a preference record contributes to the query, in the stated
\* order: interest keywords, terms of the mood, style tags, terms of the
\* companionship type.
StatedQueryTerms(entities) ==
    entities.hobbies
    \o (IF entities.mood = None THEN << >> ELSE MoodTerms(entities.mood))
    \o entities.preferred_styles
    \o (IF entities.relationship = None THEN << >> ELSE RelTerms(entities.relationship))

GenericQuery == "exhibition museum art"

(* C23: the query execute searches with is the terms of the record joined  *)
(* by single spaces, in the order interest keywords, mood terms, style     *)
(* tags, companionship terms; it is the generic query exactly when the     *)
(* record contributes no term; it is never the empty string; and it is     *)
(* built for every record, an empty or partial one included.               *)
C23_QueryText ==
    out.kind = "execute" =>
        LET query == out.searches[1].query
            terms == StatedQueryTerms(out.entities)
        IN  /\ Len(out.searches) >= 1
            /\ query # ""
            /\ (terms = << >>) <=> (query = GenericQuery)
            /\ terms # << >> => query = Join(terms)

\* an execute for a record with interest keywords, a mood, style tags and a
\* companionship type that all contribute terms
C23_Witness ==
    /\ out.kind = "execute"
    /\ out.entities.hobbies # << >>
    /\ out.entities.preferred_styles # << >>
    /\ out.entities.mood # None /\ MoodTerms(out.entities.mood) # << >>
    /\ out.entities.relationship # None /\ RelTerms(out.entities.relationship) # << >>
    /\ documents # << >>

(* C24: every position the index returns to a search is smaller than the  *)
(* number of stored documents (or is the padding -1), in every state of    *)
(* the store that add_documents, clear and a reload lead to.               *)
C24_PositionsInRange ==
    (/\ out.kind = "search"
     /\ ~StoreIsEmpty
     /\ EffectiveTopK(out.top_k) >= 1
     /\ IndexDim(index) = settings.embedding_dim)
        => \A i \in 1 .. Len(HitsOf(out)) : HitsOf(out)[i].idx < Len(documents)

\* The store is in a consistent state: the index was made for the embedding
\* model in use and holds, position by position, the vector of each stored
\* document and nothing else.
ConsistentStore ==
    /\ index # NoIndex
    /\ IndexDim(index) = settings.embedding_dim
    /\ Len(Vectors(index)) = Len(documents)
    /\ \A i \in 1 .. Len(documents) : Vectors(index)[i] = EncodeDocument(documents[i])

(* C25: on a consistent store of n >= 1 documents, with top_k >= 1,        *)
(* execute returns exactly min(top_k, n) documents, whatever tag and       *)
(* audience filters the record leads to.                                   *)
C25_ExecuteCount ==
    (out.kind = "execute" /\ ConsistentStore /\ Len(documents) >= 1
            /\ settings.top_k >= 1)
        => /\ ~out.raised
           /\ Len(out.results) = Min2(settings.top_k, Len(documents))

\* an execute on a consistent store whose filtered search found nothing and
\* which returned top_k = 2 documents all the same
C25_Witness ==
    /\ out.kind = "execute" /\ ~out.raised
    /\ ConsistentStore
    /\ settings.top_k >= 2
    /\ Len(documents) > settings.top_k
    /\ Truthy(out.searches[1].filter_tags)
    /\ SearchCall(out.searches[1]).results = << >>
    /\ Len(out.results) = settings.top_k

\* The unfiltered search for n results with the query of a record.
UnfilteredSearch(entities, n) ==
    search(_build_search_query(entities), TopK(n), NoList, NoList)

(* C26: the fallback search of execute asks for 2 * top_k results without  *)
(* filters, and whenever it is made the outcome of execute, the exception  *)
(* or the list of documents and scores, is the outcome there would be with *)
(* a fallback search that asks for top_k results only.                     *)
C26_TwiceTopKChangesNothing ==
    (out.kind = "execute" /\ Len(out.searches) = 2) =>
        /\ out.searches[2].top_k = TopK(2 * settings.top_k)
        /\ out.searches[2].filter_tags = NoList
        /\ out.searches[2].filter_audience = NoList
        /\ out.searches[2].query = out.searches[1].query
        /\ out.raised = UnfilteredSearch(out.entities, settings.top_k).raised
        /\ ~out.raised => out.results = MergedAsStated(out.entities, settings.top_k)

\* an execute whose fallback search returned more than top_k documents and
\* which appended one of them
C26_Witness ==
    /\ out.kind = "execute" /\ ~out.raised
    /\ Len(out.searches) = 2
    /\ Len(SearchCall(out.searches[2]).results) > settings.top_k
    /\ Len(UnfilteredSearch(out.entities, settings.top_k).results) = settings.top_k
    /\ Len(out.results) > Len(SearchCall(out.searches[1]).results)

\* The positions of the stored documents that satisfy the filters of a call.
Satisfying(call) ==
    {i \in 1 .. Len(documents) :
        /\ SharesOrNoFilter(documents[i].tags, call.filter_tags)
        /\ SharesOrNoFilter(documents[i].audience, call.filter_audience)}

(* C27: on a consistent store, a search for k >= 1 results with filters    *)
(* that at least k stored documents satisfy returns k documents, all of    *)
(* which satisfy the filters, wherever they rank by similarity.            *)
C27_FilteredSearchFindsMatches ==
    (/\ out.kind = "search"
     /\ ConsistentStore
     /\ EffectiveTopK(out.top_k) >= 1
     /\ Cardinality(Satisfying(out)) >= EffectiveTopK(out.top_k))
        => /\ ~out.raised
           /\ Len(out.results) = EffectiveTopK(out.top_k)
           /\ \A i \in 1 .. Len(out.results) :
                  /\ SharesOrNoFilter(out.results[i].doc.tags, out.filter_tags)
                  /\ SharesOrNoFilter(out.results[i].doc.audience, out.filter_audience)

(* C28: in chunk_text with 0 <= overlap < chunk_size every pass of the     *)
(* loop moves the window start strictly forward, and the start is never    *)
(* negative.                                                               *)
C28_StartAdvances ==
    [][(cpc = "body" /\ 0 <= coverlap /\ coverlap < csize)
        => (cstart' > cstart /\ cstart' >= 0)]_vars

\* The two files hold an index and a mapping that fit: one vector per
\* document, in the order of the mapping.
FilesAligned ==
    LET vectors == Content(disk_index)
        docs == Content(disk_docs)
    IN  /\ Len(vectors) = Len(docs)
        /\ \A i \in 1 .. Len(docs) : vectors[i] = EncodeDocument(docs[i])

(* C29: between the write of the index file and the write of the mapping   *)
(* file in _save_index, when the store in memory is consistent and both    *)
(* files exist, the files hold an index and a mapping that fit, so that a  *)
(* process stopped there leaves a pair that loads into a consistent store. *)
C29_FilesFitBetweenWrites ==
    (/\ wpc = "save_docs"
     /\ ConsistentStore
     /\ disk_index # NoFile
     /\ disk_docs # NoFile)
        => FilesAligned

(* C30: since the last reset() (or the construction) at most               *)
(* max_clarification_rounds calls of generate_clarifying_questions have    *)
(* returned a non-empty list of questions, whether the questions came from *)
(* the language model or from the fallback list.                           *)
C30_AtMostMaxRoundsAsk ==
    nonempty_returns <= settings.max_clarification_rounds

=============================================================================
